---- MODULE Spec2Model ----
(***************************************************************************)
(* Model of simple_button.py: SimpleButton, a debounced button driven by   *)
(* pin-change interrupts.                                                  *)
(*                                                                         *)
(* Python values: pin.value() is the int 0 or 1, and `not x` is a bool.    *)
(* In Python True == 1 and False == 0, and the code only ever applies ==,  *)
(* != and truthiness to these values, so a bool is represented here by its *)
(* integer value (PyNot).                                                  *)
(***************************************************************************)
EXTENDS Integers, Sequences, FiniteSets, TLC

\* ---------------------------------------------------------------- bounds
\* Period of the ticks_ms() counter (a power of two on real ports).
TicksPeriod == 128
\* Edge interrupts that can be queued before the handler has run.
MaxPending == 2
\* The count of accepted transitions saturates here ("this many or more").
MaxAccepted == 2
\* The count of deinit() calls saturates here.
MaxDeinit == 2

\* Values ticks_ms() is observed to return.  The counter wraps, so after
\* enough time has passed any reading can follow any other.  60, 120 and
\* 52 (= 180 wrapped) are each 60 ms after the one before.
ClockReadings == {0, 10, 52, 60, 120}

\* Constructor arguments tried.  debounce_ms is an int or something else.
DebounceArgs ==
    {[isInt |-> TRUE, val |-> v] : v \in {-1, 0, 50}}
        \cup {[isInt |-> FALSE, val |-> 0]}
PullArgs == {"PULL_UP", "PULL_DOWN", "None", "OTHER"}

\* Every pull mode is tried with both callbacks registered, every
\* combination of callbacks with the default pull mode.
Args ==
    {a \in [debounce_ms : DebounceArgs, pull : PullArgs,
            active_low : BOOLEAN,
            press_callback : BOOLEAN, release_callback : BOOLEAN] :
        a.pull = "PULL_UP" \/ (a.press_callback /\ a.release_callback)}

VARIABLES
    phase,          \* "new" (constructor not yet run), "live", "failed"
    args,           \* the constructor's arguments
    self,           \* the instance's attributes (meaningful when live)
    pin_open,       \* Pin(pin, Pin.IN, pull) has been created
    pin_pull,       \* pull mode the pin was opened with
    pin_level,      \* raw electrical level of the pin, 0 or 1
    init_level,     \* raw level read by the constructor
    irq_handler,    \* handler registered with pin.irq(): "None" or "_irq_handler"
    pending,        \* edge interrupts raised and not yet handled
    ticks,          \* current value of ticks_ms()
    op,             \* the operation that produced this state
    called,         \* callbacks invoked by that operation, in order
    ret,            \* value returned by that operation: "None", "True", "False"
    exc,            \* exception raised by that operation: "None", "ValueError"
    accepted,       \* accepted transitions since construction (saturating)
    deinit_calls,   \* calls of deinit() since construction (saturating)
    frame           \* the _irq_handler invocation in progress, statement by
                    \* statement: its position and its local variables

vars == <<phase, args, self, pin_open, pin_pull, pin_level, init_level,
          irq_handler, pending, ticks, op, called, ret, exc, accepted,
          deinit_calls, frame>>

\* --------------------------------------------------------- pure helpers
\* Python `not x` for x in {0, 1, False, True}
PyNot(x) == IF x = 0 THEN 1 ELSE 0

\* utime.ticks_diff(a, b): signed difference modulo the counter period
ticks_diff(a, b) ==
    ((a - b + TicksPeriod \div 2) % TicksPeriod) - TicksPeriod \div 2

\* __init__: `pull is not None and pull not in (Pin.PULL_UP, Pin.PULL_DOWN)`
InvalidPull(pull) ==
    pull /= "None" /\ pull \notin {"PULL_UP", "PULL_DOWN"}

\* Variant: zero is rejected as well.
InvalidDebounce_strict(d) ==
    (~ d.isInt) \/ d.val <= 0

\* __init__: `not isinstance(debounce_ms, int) or debounce_ms < 0`
InvalidDebounce(d) ==
    (~ d.isInt) \/ d.val < 0

\* Variant: the polarity is ignored.
InitialState_raw(active_low, physical) ==
    physical

\* __init__: starting logical state from the initial physical state
InitialState(active_low, physical) ==
    IF active_low THEN physical ELSE PyNot(physical)

\* Variant: plain subtraction instead of ticks_diff.
TooSoon_naive(now, last_time, debounce_ms) ==
    now - last_time < debounce_ms

\* Variant: the arguments of ticks_diff are exchanged.
TooSoon_swapped(now, last_time, debounce_ms) ==
    ticks_diff(last_time, now) < debounce_ms

\* Variant: the size of the difference is tested, whatever its sign.
TooSoon_abs(now, last_time, debounce_ms) ==
    LET d == ticks_diff(now, last_time)
    IN (IF d < 0 THEN 0 - d ELSE d) < debounce_ms

\* _irq_handler: the debounce test that makes the handler return early
TooSoon(now, last_time, debounce_ms) ==
    ticks_diff(now, last_time) < debounce_ms

\* _irq_handler: logical state (0=pressed, 1=released) of a physical state
LogicalState(active_low, physical) ==
    IF active_low THEN physical ELSE PyNot(physical)

\* Variant: the sample is compared with Released, not with the state.
StateChanged_fixed(logical_state, state) ==
    logical_state /= 1

\* Variant: every sample counts as a change.
StateChanged_always(logical_state, state) ==
    TRUE

\* _irq_handler: `logical_state != self._state`
StateChanged(logical_state, state) ==
    logical_state /= state

\* Variant: the two callbacks are exchanged.
Callbacks_swapped(state, press_callback, release_callback) ==
    IF state = 0
    THEN (IF release_callback THEN <<"release">> ELSE <<>>)
    ELSE (IF press_callback THEN <<"press">> ELSE <<>>)

\* _irq_handler: callbacks invoked once the new stable state is stored
Callbacks(state, press_callback, release_callback) ==
    IF state = 0
    THEN (IF press_callback THEN <<"press">> ELSE <<>>)
    ELSE (IF release_callback THEN <<"release">> ELSE <<>>)

\* Variant: the time of the change is not recorded.
Confirmed_nostamp(s, now, logical_state) ==
    [s EXCEPT !.state = logical_state]

\* _irq_handler: the attributes after a confirmed state change
Confirmed(s, now, logical_state) ==
    [s EXCEPT !.last_time = now, !.state = logical_state]

\* is_pressed() / is_released()
is_pressed == self.state = 0

\* Variant: the raw pin is read instead of the debounced state.
is_released_raw == pin_level = 1

is_released == self.state = 1

PyBool(b) == IF b THEN "True" ELSE "False"

\* Variant: the level the triggering edge produced is used; with a second
\* edge queued behind it that is the opposite of the present level.
PinValue_latched == IF pending >= 2 THEN 1 - pin_level ELSE pin_level

\* _irq_handler: `self._pin.value()`, read after the debounce test
PinValue == pin_level

\* Attributes before __init__ has assigned them.
NoSelf ==
    [state |-> 0, last_time |-> 0, debounce_ms |-> 0, active_low |-> FALSE,
     press_callback |-> FALSE, release_callback |-> FALSE]

\* No _irq_handler invocation is in progress.
NoFrame == [pc |-> "idle", now |-> 0, logical_state |-> 0, cb |-> "none"]

\* ------------------------------------------------------------------ Init
Init ==
    /\ phase = "new"
    /\ args \in Args
    /\ self = NoSelf
    /\ pin_open = FALSE
    /\ pin_pull = "None"
    /\ pin_level \in {0, 1}
    /\ init_level = 0
    /\ irq_handler = "None"
    /\ pending = 0
    /\ ticks \in ClockReadings
    /\ op = "none"
    /\ called = <<>>
    /\ ret = "None"
    /\ exc = "None"
    /\ accepted = 0
    /\ deinit_calls = 0
    /\ frame = NoFrame

\* --------------------------------------------------------------- actions
\* SimpleButton.__init__ raising ValueError
ConstructFail ==
    /\ phase = "new"
    /\ InvalidPull(args.pull) \/ InvalidDebounce(args.debounce_ms)
    /\ phase' = "failed"
    /\ exc' = "ValueError"
    /\ op' = "__init__"
    /\ called' = <<>>
    /\ ret' = "None"
    /\ UNCHANGED <<args, self, pin_open, pin_pull, pin_level, init_level,
                   irq_handler, pending, ticks, accepted,
                   deinit_calls, frame>>

\* SimpleButton.__init__ returning normally
ConstructOk ==
    /\ phase = "new"
    /\ ~ InvalidPull(args.pull)
    /\ ~ InvalidDebounce(args.debounce_ms)
    /\ phase' = "live"
    /\ pin_open' = TRUE
    /\ pin_pull' = args.pull
    /\ init_level' = pin_level
    /\ self' = [state |-> InitialState(args.active_low, pin_level),
                last_time |-> 0,
                debounce_ms |-> args.debounce_ms.val,
                active_low |-> args.active_low,
                press_callback |-> args.press_callback,
                release_callback |-> args.release_callback]
    /\ irq_handler' = "_irq_handler"
    /\ exc' = "None"
    /\ op' = "__init__"
    /\ called' = <<>>
    /\ ret' = "None"
    /\ UNCHANGED <<args, pin_level, pending, ticks, accepted,
                   deinit_calls, frame>>

\* SimpleButton._irq_handler, run for one queued edge interrupt
IrqHandler ==
    /\ phase = "live"
    /\ pending > 0
    /\ pending' = pending - 1
    /\ op' = "_irq_handler"
    /\ ret' = "None"
    /\ exc' = "None"
    /\ LET now == ticks IN
       IF TooSoon(now, self.last_time, self.debounce_ms)
       THEN /\ called' = <<>>
            /\ UNCHANGED <<self, accepted>>
       ELSE LET physical_state == PinValue
                logical_state == LogicalState(self.active_low, physical_state)
            IN IF StateChanged(logical_state, self.state)
               THEN /\ self' = Confirmed(self, now, logical_state)
                    /\ called' = Callbacks(self'.state, self.press_callback,
                                           self.release_callback)
                    /\ accepted' = IF accepted < MaxAccepted
                                   THEN accepted + 1 ELSE accepted
               ELSE /\ called' = <<>>
                    /\ UNCHANGED <<self, accepted>>
    /\ UNCHANGED <<phase, args, pin_open, pin_pull, pin_level, init_level,
                   irq_handler, ticks, deinit_calls, frame>>

\* SimpleButton.is_pressed
IsPressed ==
    /\ phase = "live"
    /\ op' = "is_pressed"
    /\ ret' = PyBool(is_pressed)
    /\ called' = <<>>
    /\ exc' = "None"
    /\ UNCHANGED <<phase, args, self, pin_open, pin_pull, pin_level,
                   init_level, irq_handler, pending, ticks, accepted,
                   deinit_calls, frame>>

\* SimpleButton.is_released
IsReleased ==
    /\ phase = "live"
    /\ op' = "is_released"
    /\ ret' = PyBool(is_released)
    /\ called' = <<>>
    /\ exc' = "None"
    /\ UNCHANGED <<phase, args, self, pin_open, pin_pull, pin_level,
                   init_level, irq_handler, pending, ticks, accepted,
                   deinit_calls, frame>>

\* Variant: the call also drops the callbacks.
Deinit_clearing ==
    /\ phase = "live"
    /\ irq_handler' = "None"
    /\ self' = [self EXCEPT !.press_callback = FALSE,
                            !.release_callback = FALSE]
    /\ op' = "deinit"
    /\ called' = <<>>
    /\ ret' = "None"
    /\ exc' = "None"
    /\ deinit_calls' = IF deinit_calls < MaxDeinit
                       THEN deinit_calls + 1 ELSE deinit_calls
    /\ UNCHANGED <<phase, args, pin_open, pin_pull, pin_level,
                   init_level, pending, ticks, accepted, frame>>

\* SimpleButton.deinit: pin.irq(handler=None).  Interrupts already queued
\* are not cancelled.
Deinit ==
    /\ phase = "live"
    /\ irq_handler' = "None"
    /\ op' = "deinit"
    /\ called' = <<>>
    /\ ret' = "None"
    /\ exc' = "None"
    /\ deinit_calls' = IF deinit_calls < MaxDeinit
                       THEN deinit_calls + 1 ELSE deinit_calls
    /\ UNCHANGED <<phase, args, self, pin_open, pin_pull, pin_level,
                   init_level, pending, ticks, accepted, frame>>

\* Variant: an interrupt is queued whether or not a handler is registered.
PinEdge_always ==
    /\ phase /= "new"
    /\ pin_level' = 1 - pin_level
    /\ pending' = IF pending < MaxPending THEN pending + 1 ELSE pending
    /\ op' = "env"
    /\ called' = <<>>
    /\ ret' = "None"
    /\ exc' = "None"
    /\ UNCHANGED <<phase, args, self, pin_open, pin_pull, init_level,
                   irq_handler, ticks, accepted,
                   deinit_calls, frame>>

\* Environment: the pin's level changes; with a handler registered for
\* IRQ_FALLING | IRQ_RISING this raises an interrupt.
PinEdge ==
    /\ phase /= "new"
    /\ pin_level' = 1 - pin_level
    /\ pending' = IF irq_handler = "None" THEN pending
                  ELSE IF pending < MaxPending THEN pending + 1 ELSE pending
    /\ op' = "env"
    /\ called' = <<>>
    /\ ret' = "None"
    /\ exc' = "None"
    /\ UNCHANGED <<phase, args, self, pin_open, pin_pull, init_level,
                   irq_handler, ticks, accepted,
                   deinit_calls, frame>>

\* Environment: time passes and ticks_ms() reads something else.
Tick ==
    /\ phase /= "new"
    /\ ticks' \in ClockReadings \ {ticks}
    /\ op' = "env"
    /\ called' = <<>>
    /\ ret' = "None"
    /\ exc' = "None"
    /\ UNCHANGED <<phase, args, self, pin_open, pin_pull, pin_level,
                   init_level, irq_handler, pending, accepted,
                   deinit_calls, frame>>

Next ==
    \/ ConstructFail
    \/ ConstructOk
    \/ IrqHandler
    \/ IsPressed
    \/ IsReleased
    \/ Deinit
    \/ PinEdge
    \/ Tick

Spec == Init /\ [][Next]_vars

\* ------------------------------------- the handler, statement by statement
\* The same _irq_handler as IrqHandler, one action per statement, so that
\* edges, clock ticks, queries and (in SpecReentrant) a second invocation
\* can fall between two statements.

\* Constructor arguments of the statement-level specifications.
StepArgs ==
    {a \in Args : /\ a.pull = "PULL_UP"
                  /\ a.debounce_ms.isInt
                  /\ a.debounce_ms.val \in {0, 50}
                  /\ a.press_callback
                  /\ a.release_callback}

\* Variant: the callback is invoked first, the attributes are set after it.
FlowNext_cbfirst(pc) ==
    CASE pc = "l101" -> "l107"
      [] pc = "l107" -> "cb"
      [] pc = "cb" -> "l103"
      [] pc = "l103" -> "l104"
      [] pc = "l104" -> "idle"

\* _irq_handler: order of the statements once a change is confirmed:
\* line 101 (test), 103 (_last_time), 104 (_state), 107-114 (callback),
\* return.
FlowNext(pc) ==
    CASE pc = "l101" -> "l103"
      [] pc = "l103" -> "l104"
      [] pc = "l104" -> "l107"
      [] pc = "l107" -> "cb"
      [] pc = "cb" -> "idle"

\* What no statement of the handler touches.
HandlerFrame ==
    UNCHANGED <<phase, args, pin_open, pin_pull, pin_level, init_level,
                irq_handler, ticks, deinit_calls>>

\* Moving to position pc; the frame is dropped on return.
Goto(pc) ==
    frame' = IF pc = "idle" THEN NoFrame ELSE [frame EXCEPT !.pc = pc]

\* line 85: now = ticks_ms()
HEnter ==
    /\ phase = "live"
    /\ frame.pc = "idle"
    /\ pending > 0
    /\ pending' = pending - 1
    /\ frame' = [NoFrame EXCEPT !.pc = "l89", !.now = ticks]
    /\ op' = "_irq_handler"
    /\ called' = <<>>
    /\ ret' = "None"
    /\ exc' = "None"
    /\ UNCHANGED <<self, accepted>>
    /\ HandlerFrame

\* lines 89-91: the debounce test
HDebounce ==
    /\ frame.pc = "l89"
    /\ IF TooSoon(frame.now, self.last_time, self.debounce_ms)
       THEN Goto("idle")
       ELSE Goto("l94")
    /\ op' = "_irq_handler"
    /\ called' = <<>>
    /\ ret' = "None"
    /\ exc' = "None"
    /\ UNCHANGED <<self, accepted, pending>>
    /\ HandlerFrame

\* lines 94-99: read the pin and map it
HSample ==
    /\ frame.pc = "l94"
    /\ frame' = [frame EXCEPT
                   !.pc = "l101",
                   !.logical_state = LogicalState(self.active_low, PinValue)]
    /\ op' = "_irq_handler"
    /\ called' = <<>>
    /\ ret' = "None"
    /\ exc' = "None"
    /\ UNCHANGED <<self, accepted, pending>>
    /\ HandlerFrame

\* line 101: if logical_state != self._state
HCompare ==
    /\ frame.pc = "l101"
    /\ IF StateChanged(frame.logical_state, self.state)
       THEN Goto(FlowNext("l101"))
       ELSE Goto("idle")
    /\ op' = "_irq_handler"
    /\ called' = <<>>
    /\ ret' = "None"
    /\ exc' = "None"
    /\ UNCHANGED <<self, accepted, pending>>
    /\ HandlerFrame

\* line 103: self._last_time = now
HStamp ==
    /\ frame.pc = "l103"
    /\ self' = [self EXCEPT !.last_time = frame.now]
    /\ Goto(FlowNext("l103"))
    /\ op' = "_irq_handler"
    /\ called' = <<>>
    /\ ret' = "None"
    /\ exc' = "None"
    /\ UNCHANGED <<accepted, pending>>
    /\ HandlerFrame

\* line 104: self._state = logical_state
HState ==
    /\ frame.pc = "l104"
    /\ self' = [self EXCEPT !.state = frame.logical_state]
    /\ accepted' = IF accepted < MaxAccepted THEN accepted + 1 ELSE accepted
    /\ Goto(FlowNext("l104"))
    /\ op' = "_irq_handler"
    /\ called' = <<>>
    /\ ret' = "None"
    /\ exc' = "None"
    /\ UNCHANGED pending
    /\ HandlerFrame

\* lines 107-114: pick the callback from self._state and call it
HCallback ==
    /\ frame.pc = "l107"
    /\ LET cbs == Callbacks(self.state, self.press_callback,
                            self.release_callback)
       IN /\ called' = cbs
          /\ IF cbs = <<>>
             THEN Goto(FlowNext("cb"))
             ELSE frame' = [frame EXCEPT !.pc = FlowNext("l107"),
                                         !.cb = cbs[1]]
    /\ op' = "_irq_handler"
    /\ ret' = "None"
    /\ exc' = "None"
    /\ UNCHANGED <<self, accepted, pending>>
    /\ HandlerFrame

\* the callback returns, and the handler after it
HReturn ==
    /\ frame.pc = "cb"
    /\ Goto(FlowNext("cb"))
    /\ op' = "_irq_handler"
    /\ called' = <<>>
    /\ ret' = "None"
    /\ exc' = "None"
    /\ UNCHANGED <<self, accepted, pending>>
    /\ HandlerFrame

\* A second invocation of _irq_handler that starts between two statements
\* of the one in progress and runs to its end before that one resumes.
Preempt ==
    /\ frame.pc /= "idle"
    /\ IrqHandler

InitSteps ==
    /\ Init
    /\ args \in StepArgs

\* Invocations of the handler one after the other.
NextSteps ==
    \/ ConstructOk
    \/ PinEdge
    \/ Tick
    \/ IsPressed
    \/ IsReleased
    \/ HEnter
    \/ HDebounce
    \/ HSample
    \/ HCompare
    \/ HStamp
    \/ HState
    \/ HCallback
    \/ HReturn

SpecSteps == InitSteps /\ [][NextSteps]_vars

\* The same with a second invocation allowed to interrupt the first.
NextReentrant ==
    \/ NextSteps
    \/ Preempt

SpecReentrant == InitSteps /\ [][NextReentrant]_vars

\* ------------------------------------------------------------ properties

\* C1: whenever _irq_handler accepts a transition at clock reading `now`,
\* ticks_diff(now, time of the previously accepted change) >= debounce_ms,
\* and `now` becomes the new reference time.
C1_DebounceSpacing ==
    [][(op' = "_irq_handler" /\ self'.state /= self.state)
         => /\ ticks_diff(ticks', self.last_time) >= self.debounce_ms
            /\ self'.last_time = ticks']_vars

\* A second accepted transition with a 50 ms window has just happened.
C1_Witness ==
    /\ op = "_irq_handler"
    /\ accepted = 2
    /\ called /= <<>>
    /\ self.debounce_ms = 50

\* C2: a handler invocation with ticks_diff(now, last_time) < debounce_ms
\* changes neither the state nor the time stamp and calls no callback,
\* whatever the pin reads.
C2_BounceRejected ==
    [][(op' = "_irq_handler"
          /\ ticks_diff(ticks, self.last_time) < self.debounce_ms)
         => (self' = self /\ called' = <<>> /\ accepted' = accepted)]_vars

\* A genuine level change arriving 0..49 ms after an accepted one has been
\* discarded: the pin maps to the other state, the state did not follow.
C2_Witness ==
    /\ op = "_irq_handler"
    /\ accepted >= 1
    /\ self.debounce_ms = 50
    /\ ticks_diff(ticks, self.last_time) \in 1..49
    /\ (IF self.active_low THEN pin_level ELSE 1 - pin_level) /= self.state
    /\ called = <<>>

\* C3: a handler invocation that passes the debounce test but samples a
\* level mapping to the current state changes nothing and calls nothing;
\* last_time is not restarted.
C3_GlitchRejected ==
    [][(op' = "_irq_handler"
          /\ ticks_diff(ticks, self.last_time) >= self.debounce_ms
          /\ (IF self.active_low THEN pin_level ELSE 1 - pin_level)
                = self.state)
         => (self' = self /\ called' = <<>> /\ accepted' = accepted)]_vars

\* After an accepted transition to Pressed, an edge was handled outside the
\* debounce window while the pin still maps to Pressed.
C3_Witness ==
    /\ op = "_irq_handler"
    /\ accepted >= 1
    /\ self.state = 0
    /\ self.debounce_ms = 50
    /\ ticks_diff(ticks, self.last_time) >= 50
    /\ (IF self.active_low THEN pin_level ELSE 1 - pin_level) = 0
    /\ called = <<>>

\* C4: a handler invocation changes the state iff
\* ticks_diff(now, last_time) >= debounce_ms and the polarity-mapped sample
\* differs from the state; it then stores now and the candidate state.
C4_TransitionGuard ==
    [][op' = "_irq_handler" =>
        LET candidate == IF self.active_low THEN pin_level ELSE 1 - pin_level
            changes == self'.state /= self.state
        IN /\ changes <=>
                (/\ ticks_diff(ticks, self.last_time) >= self.debounce_ms
                 /\ candidate /= self.state)
           /\ changes => (/\ self'.last_time = ticks
                          /\ self'.state = candidate)
           /\ (~ changes) => self'.last_time = self.last_time]_vars

\* A first transition of an active-high button accepted at a non-zero time.
C4_Witness ==
    /\ op = "_irq_handler"
    /\ accepted = 1
    /\ ~ self.active_low
    /\ self.state = 1 - pin_level
    /\ self.last_time = ticks
    /\ ticks = 60
    /\ called /= <<>>

\* C5: an accepted transition invokes exactly the callback matching the new
\* state, once, if it is registered, and nothing else; no other step of the
\* program (discarded invocation, constructor, query, deinit) invokes any.
C5_CallbackMatching ==
    [][called' =
         IF op' = "_irq_handler" /\ self'.state /= self.state
         THEN IF self'.state = 0
              THEN (IF self.press_callback THEN <<"press">> ELSE <<>>)
              ELSE (IF self.release_callback THEN <<"release">> ELSE <<>>)
         ELSE <<>>]_vars

\* Both callbacks are registered and a transition to Released invoked only
\* the release callback.
C5_Witness ==
    /\ op = "_irq_handler"
    /\ self.press_callback
    /\ self.release_callback
    /\ self.state = 1
    /\ called = <<"release">>

\* C6: in every state of a constructed button is_pressed() and
\* is_released() are complementary, and each query returns the negation of
\* what the other would return.
C6_Complementary ==
    phase = "live" =>
        /\ is_pressed /= is_released
        /\ op = "is_pressed" => ret = PyBool(~ is_released)
        /\ op = "is_released" => ret = PyBool(~ is_pressed)

\* is_released() answered True after accepted transitions and deinit().
C6_Witness ==
    /\ op = "is_released"
    /\ ret = "True"
    /\ irq_handler = "None"
    /\ accepted >= 1

\* C7: the constructor leaves the state Pressed iff the level it read is
\* the active one and calls nothing; while no transition has been accepted,
\* a handler invocation that samples the construction-time level changes
\* nothing and calls nothing, whatever the clock reads.
C7_InitialState ==
    [][/\ (op' = "__init__" /\ phase' = "live")
            => /\ (self'.state = 0) <=>
                     (pin_level' = IF args.active_low THEN 0 ELSE 1)
               /\ self'.state \in {0, 1}
               /\ called' = <<>>
       /\ (op' = "_irq_handler" /\ accepted = 0 /\ pin_level = init_level)
            => /\ self'.state = self.state
               /\ called' = <<>>
               /\ accepted' = 0]_vars

\* An active-high button at rest had an edge handled outside the debounce
\* window while the pin was back at its construction-time level.
C7_Witness ==
    /\ op = "_irq_handler"
    /\ accepted = 0
    /\ pin_level = init_level
    /\ ~ self.active_low
    /\ self.press_callback
    /\ self.release_callback
    /\ ticks_diff(ticks, self.last_time) >= self.debounce_ms

\* C8: debounce_ms=50, active_low, initial level high; the first edge,
\* handled at t=0 with the pin low, is accepted (Pressed, press callback,
\* last_time 0); from there an edge handled at t=10 with the pin high is
\* discarded and one handled at t=60 with the pin high is accepted
\* (Released, release callback, last_time 60).
C8_Scenario ==
    [][(/\ phase = "live"
        /\ op' = "_irq_handler"
        /\ self.debounce_ms = 50
        /\ self.active_low
        /\ init_level = 1
        /\ self.press_callback
        /\ self.release_callback)
       => /\ (accepted = 0 /\ ticks = 0 /\ pin_level = 0)
               => /\ self'.state = 0
                  /\ self'.last_time = 0
                  /\ called' = <<"press">>
          /\ (accepted = 1 /\ self.state = 0 /\ self.last_time = 0
                /\ ticks = 10 /\ pin_level = 1)
               => (self' = self /\ called' = <<>>)
          /\ (accepted = 1 /\ self.state = 0 /\ self.last_time = 0
                /\ ticks = 60 /\ pin_level = 1)
               => /\ self'.state = 1
                  /\ self'.last_time = 60
                  /\ called' = <<"release">>]_vars

\* C9: initial level low; the handler invocation for the first low->high
\* transition (nothing accepted before, pin high) yields Released and the
\* release callback when active_low, Pressed and the press callback
\* otherwise, at any clock reading and for any debounce_ms.
C9_FirstTransitionPolarity ==
    [][(/\ phase = "live"
        /\ op' = "_irq_handler"
        /\ accepted = 0
        /\ init_level = 0
        /\ pin_level = 1)
       => IF self.active_low
          THEN /\ self'.state = 1
               /\ self.release_callback => called' = <<"release">>
          ELSE /\ self'.state = 0
               /\ self.press_callback => called' = <<"press">>]_vars

\* C10: the constructor raises ValueError exactly when debounce_ms is not
\* an int or is negative, or pull is none of None, PULL_UP, PULL_DOWN;
\* debounce_ms = 0 is accepted; after a failure the pin is not opened, no
\* handler is registered, no interrupt is queued and no attribute was set;
\* after a success no operation raises.
C10_ConstructionValidation ==
    phase /= "new" =>
        LET bad == \/ ~ args.debounce_ms.isInt
                   \/ args.debounce_ms.val < 0
                   \/ args.pull \notin {"None", "PULL_UP", "PULL_DOWN"}
        IN /\ phase = "failed" <=> bad
           /\ phase = "live" <=> ~ bad
           /\ (op = "__init__" /\ phase = "failed") => exc = "ValueError"
           /\ phase = "failed" =>
                /\ ~ pin_open
                /\ irq_handler = "None"
                /\ pending = 0
                /\ self = NoSelf
                /\ called = <<>>
                /\ op \in {"__init__", "env"}
           /\ phase = "live" =>
                /\ exc = "None"
                /\ pin_open
                /\ pin_pull = args.pull

\* Construction with debounce_ms = -1 failed and an edge arrived later.
C10_Witness ==
    /\ phase = "failed"
    /\ args.debounce_ms = [isInt |-> TRUE, val |-> -1]
    /\ args.pull = "PULL_UP"
    /\ op = "env"
    /\ pin_level = 1
    /\ ticks = 60

\* C11: with debounce_ms = 0 every handler invocation whose polarity-mapped
\* sample differs from the state is accepted, for every clock reading and
\* every earlier last_time.
C11_ZeroDebounce ==
    [][(/\ phase = "live"
        /\ op' = "_irq_handler"
        /\ self.debounce_ms = 0
        /\ (IF self.active_low THEN pin_level ELSE 1 - pin_level)
              /= self.state)
       => /\ self'.state = IF self.active_low THEN pin_level
                           ELSE 1 - pin_level
          /\ self'.last_time = ticks]_vars

\* C13: once deinit() has returned, the state and last_time never change
\* again and no callback is invoked.
C13_FrozenAfterDeinit ==
    [][(phase = "live" /\ irq_handler = "None")
         => (self' = self /\ called' = <<>>)]_vars

\* C13 (amended): once deinit() has returned and the interrupts queued
\* before it have been handled, no interrupt is queued again, the state and
\* last_time never change, no callback is invoked, and the queries keep
\* returning the frozen state.
C13_FrozenOnceDrained ==
    [][(phase = "live" /\ irq_handler = "None" /\ pending = 0)
         => /\ self' = self
            /\ called' = <<>>
            /\ pending' = 0
            /\ irq_handler' = "None"
            /\ op' = "is_pressed" => ret' = PyBool(self.state = 0)
            /\ op' = "is_released" => ret' = PyBool(self.state = 1)]_vars

\* After deinit() the pin went back to the released level; is_pressed()
\* still answers True, the state frozen at the last accepted transition.
C13_Witness ==
    /\ irq_handler = "None"
    /\ pending = 0
    /\ accepted >= 1
    /\ op = "is_pressed"
    /\ ret = "True"
    /\ (IF self.active_low THEN pin_level ELSE 1 - pin_level) = 1

\* C14: the values taken by last_time never decrease, and a callback is
\* invoked only by the step that accepts its transition.
C14_Monotonic ==
    [][phase = "live" =>
         /\ self'.last_time >= self.last_time
         /\ called' /= <<>> =>
              (op' = "_irq_handler" /\ self'.state /= self.state)]_vars

\* C14 (amended): each new value of last_time is not before the previous
\* one in the sense of ticks_diff (as a number it may be smaller, the
\* counter having wrapped); last_time changes only when a transition is
\* accepted; a callback is invoked only by the step that accepts its
\* transition, once, and that step stores its own clock reading.
C14_Ordering ==
    [][phase = "live" =>
         /\ self'.last_time /= self.last_time =>
              /\ ticks_diff(self'.last_time, self.last_time) >= 0
              /\ op' = "_irq_handler"
              /\ self'.state /= self.state
         /\ called' /= <<>> =>
              /\ op' = "_irq_handler"
              /\ self'.state /= self.state
              /\ Len(called') = 1
              /\ self'.last_time = ticks']_vars

\* A third transition was accepted at reading 52, 60 ms after the one
\* accepted at reading 120: the stored number went down.
C14_Witness ==
    /\ op = "_irq_handler"
    /\ accepted >= 2
    /\ self.debounce_ms = 50
    /\ self.last_time = 52
    /\ called /= <<>>

\* C17: whenever the debounce test passes, the state after the handler is
\* the polarity mapping of the level the pin has when the handler reads it,
\* however many edges are queued behind the one being served.
C17_Resample ==
    [][(/\ phase = "live"
        /\ op' = "_irq_handler"
        /\ ticks_diff(ticks, self.last_time) >= self.debounce_ms)
       => self'.state = IF self.active_low THEN pin_level
                        ELSE 1 - pin_level]_vars

\* A transition was accepted while a further edge was still queued: the
\* level had changed again after the edge being served.
C17_Witness ==
    /\ op = "_irq_handler"
    /\ pending >= 1
    /\ irq_handler = "_irq_handler"
    /\ self.last_time = ticks
    /\ self.debounce_ms = 50
    /\ called /= <<>>

\* C18: every accepted transition goes to the state opposite to the current
\* one, the press callback only on Released -> Pressed and the release
\* callback only on Pressed -> Released; the first accepted transition
\* leaves the construction-time state.
C18_Alternation ==
    [][(/\ phase = "live"
        /\ \/ self' /= self
           \/ called' /= <<>>
           \/ accepted' /= accepted)
       => /\ op' = "_irq_handler"
          /\ self'.state = 1 - self.state
          /\ called' = <<"press">> => (self.state = 1 /\ self'.state = 0)
          /\ called' = <<"release">> => (self.state = 0 /\ self'.state = 1)
          /\ accepted = 0 =>
               self.state = (IF self.active_low THEN init_level
                             ELSE 1 - init_level)]_vars

\* A button constructed Pressed has been released and was pressed again.
C18_Witness ==
    /\ op = "_irq_handler"
    /\ accepted >= 2
    /\ (IF self.active_low THEN init_level ELSE 1 - init_level) = 0
    /\ called = <<"press">>
    /\ self.state = 0

\* C19: with the handler registered, every raised edge handled and at least
\* debounce_ms gone since the last accepted transition, the state is the
\* polarity mapping of the pin's level.
C19_Convergence ==
    (/\ phase = "live"
     /\ irq_handler = "_irq_handler"
     /\ pending = 0
     /\ accepted >= 1
     /\ ticks_diff(ticks, self.last_time) >= self.debounce_ms)
    => self.state = IF self.active_low THEN pin_level ELSE 1 - pin_level

\* C12: every call of deinit(), the first or a later one, raises nothing,
\* leaves the handler unregistered, changes none of the state, last_time,
\* polarity, debounce_ms, callbacks or the pin's pull mode, and invokes no
\* callback; a call on an instance already deinitialized changes nothing
\* the first call had not already changed.
C12_DeinitIdempotent ==
    [][op' = "deinit" =>
         /\ exc' = "None"
         /\ called' = <<>>
         /\ irq_handler' = "None"
         /\ self' = self
         /\ pin_pull' = pin_pull
         /\ pin_open' = pin_open
         /\ phase' = "live"
         /\ deinit_calls >= 1 =>
              (/\ irq_handler' = irq_handler
               /\ pending' = pending
               /\ pin_level' = pin_level
               /\ ticks' = ticks)]_vars

\* deinit() has just been called on an instance that was already
\* deinitialized and that had accepted transitions before.
C12_Witness ==
    /\ op = "deinit"
    /\ deinit_calls = 2
    /\ accepted >= 1
    /\ self.press_callback
    /\ pin_pull = "PULL_DOWN"

\* C15: after an accepted transition, the handler's time test passes
\* exactly when the time elapsed since last_time was stored is at least
\* debounce_ms.  (ticks - last_time) mod TicksPeriod is that time when less
\* than one period has gone by.
C15_WrapSafe ==
    [][(/\ phase = "live"
        /\ op' = "_irq_handler"
        /\ accepted >= 1
        /\ (IF self.active_low THEN pin_level ELSE 1 - pin_level)
              /= self.state)
       => ((self'.state /= self.state)
             <=> ((ticks - self.last_time) % TicksPeriod
                    >= self.debounce_ms))]_vars

\* C16: with a second invocation starting inside the first, the result is
\* that of the two run one after the other: every new last_time is at
\* least debounce_ms after the one it replaces (so it never moves back),
\* every write of the state by an accepted transition changes the state,
\* and the callback an invocation calls is the one of the state it stored.
C16_SerialEquivalent ==
    [][phase = "live" =>
         /\ self'.last_time /= self.last_time =>
              ticks_diff(self'.last_time, self.last_time)
                >= self.debounce_ms
         /\ (frame.pc = "l104" /\ frame'.pc /= "l104") =>
              self'.state /= self.state
         /\ (frame.pc = "l107" /\ frame'.pc /= "l107") =>
              called' = IF frame.logical_state = 0
                        THEN (IF self.press_callback
                              THEN <<"press">> ELSE <<>>)
                        ELSE (IF self.release_callback
                              THEN <<"release">> ELSE <<>>)]_vars

====
